---- MODULE Spec2Model ----
(***************************************************************************)
(* A model of the Eknert kernel core: the boot sequence of _start, the     *)
(* interrupt handlers of bootloader_kernel.rs, the bump frame allocator of *)
(* memory.rs and the round-robin scheduler of task.rs.                     *)
(*                                                                         *)
(* One CPU.  `ctx` names the context the CPU executes: "main" (the boot    *)
(* thread, or a task once the scheduler has switched to it), "irq" (a      *)
(* timer or keyboard handler, entered through an interrupt gate) or        *)
(* "panic" (the double fault handler and the panic handler).               *)
(***************************************************************************)
EXTENDS Integers, Sequences, FiniteSets, TLC

(* ------------------------------ bounds -------------------------------- *)
MaxTimerIrqs == 2
MaxKeys == 2
MaxTasks == 3
MaxRuns == 4
MaxNear == 16
MaxAllocCalls == 4

(* ------------------------- program constants -------------------------- *)
FrameStart == 1048576
PageSize == 4096
VirtStart == 4194304
NumPages == 10
StackSize == 4096
WordSize == 8
PicCmdPort == 32
EoiByte == 32
KbdDataPort == 96
KbdStatusPort == 100
ResetByte == 254
KeyCR == 13
KeyBackspace == 8
KeyChar == 97
NumBootTasks == 2
BootBuf == 0

Keys == {KeyCR, KeyBackspace, KeyChar}
Entries == {"task1", "task2"}
Commands == {"print", "clear", "reboot"}
PtStates == {"no_p3", "no_p2", "no_p1", "p1_pre", "huge_p3", "huge_p2"}
MapFlags == {"present", "writable"}

VARIABLES
  pc, ctx, hret, intEnabled, idtLoaded, rsp, rip, ppc, panicMsg,
  hpc, irr, isr, hWork, hEoi,
  TIMER_TICKS, timerRaised, timerTaken, kbdTaken, served, eoiTotal,
  keysPressed, kbdFull, kbdData, lineLen,
  next_free_frame, issued, mappings, tableFrames, pt, init_i, curFrame,
  tasks, current_task, schedLock, newTask, mem,
  scheduled, runCalls, addAfterRun, lastSwitch,
  console, writerLock, lastAccess,
  mm, allocResult, allocCalls,
  keysRead

cpuVars == <<pc, ctx, hret, intEnabled, idtLoaded, rsp, rip, ppc, panicMsg>>
irqVars == <<hpc, irr, isr, hWork, hEoi>>
cntVars == <<TIMER_TICKS, timerRaised, timerTaken, kbdTaken, served, eoiTotal>>
kbdVars == <<keysPressed, kbdFull, kbdData, lineLen>>
memVars == <<next_free_frame, issued, mappings, tableFrames, pt, init_i, curFrame>>
schVars == <<tasks, current_task, schedLock, newTask, mem>>
ghostVars == <<scheduled, runCalls, addAfterRun, lastSwitch>>
conVars == <<console, writerLock>>
allocVars == <<mm, allocResult, allocCalls>>
extVars == <<allocVars, keysRead>>
vars == <<cpuVars, irqVars, cntVars, kbdVars, memVars, schVars, ghostVars,
          conVars, lastAccess, extVars>>

NoAccess == [by |-> "none", obj |-> "none"]
MainAccess(o) == [by |-> "main", obj |-> o]
IrqAccess(o) == [by |-> "irq", obj |-> o]

(* ------------------------------- Init --------------------------------- *)
(* The statics after construction: TIMER_TICKS = 0, SCHEDULER =            *)
(* Scheduler::new(); the CPU enters _start with interrupts disabled.       *)
KernelInit ==
  /\ pc = "start" /\ ctx = "main" /\ hret = "main" /\ intEnabled = FALSE
  /\ idtLoaded = FALSE
  /\ rsp = [buf |-> BootBuf, off |-> 0] /\ rip = "kernel"
  /\ ppc = "none" /\ panicMsg = "none"
  /\ hpc = "none" /\ irr = {} /\ isr = {} /\ hWork = FALSE /\ hEoi = 0
  /\ TIMER_TICKS = 0 /\ timerRaised = 0 /\ timerTaken = 0 /\ kbdTaken = 0
  /\ served = 0 /\ eoiTotal = 0
  /\ keysPressed = 0 /\ kbdFull = FALSE /\ kbdData = 0 /\ lineLen = 0
  /\ next_free_frame = 0 /\ issued = <<>> /\ mappings = <<>>
  /\ tableFrames = {} /\ pt = "none" /\ init_i = 0 /\ curFrame = 0
  /\ tasks = <<>> /\ current_task = 0 /\ schedLock = "free"
  /\ newTask = <<>> /\ mem = {}
  /\ scheduled = <<>> /\ runCalls = 0 /\ addAfterRun = FALSE
  /\ lastSwitch = <<>>
  /\ console = {} /\ writerLock = "free"
  /\ lastAccess = NoAccess
  /\ keysRead = 0

(* A physical address is 52 bits wide: two limbs of 26 bits, hi * 2^26 +   *)
(* lo, so that addresses at the top of the address space can be written.   *)
LimbBase == 67108864
PhysAddr(hi, lo) == [hi |-> hi, lo |-> lo]
NoResult == [kind |-> "none", frame |-> PhysAddr(0, 0)]

(* MemoryManager::new(): next_free_frame = PhysAddr::new(0x100000) *)
MemoryManagerNew == PhysAddr(0, FrameStart)

Init ==
  /\ KernelInit
  /\ mm = MemoryManagerNew /\ allocResult = NoResult /\ allocCalls = 0

(* --------------------------- console ---------------------------------- *)
(* println!/print!: the console collaborator accepts the text; the set of  *)
(* messages shown so far, each a tuple of strings.                         *)
Println(msg) == console' = console \cup {msg}

(* --------------------------- panic ------------------------------------ *)
(* A faulty failure path: the message is recorded and execution goes on. *)
Panic_Continues(msg) ==
  /\ ctx' = ctx /\ ppc' = ppc /\ panicMsg' = msg

(* panic!(msg) / Option::expect failing: control enters the panic handler. *)
Panic(msg) ==
  /\ ctx' = "panic" /\ ppc' = "panic" /\ panicMsg' = msg

(* ------------------------- frame allocator ---------------------------- *)
ContainingAddress(a) == (a \div PageSize) * PageSize

(* A faulty bump: the pointer advances by one byte, not one page. *)
BumpPointer_ByOne(p) == p + 1

(* PhysAddr += Size4KiB::SIZE *)
BumpPointer(p) == p + PageSize

(* MemoryManager::allocate_frame applied n times from bump pointer p: the  *)
(* frames returned, in order, and the pointer left.                        *)
RECURSIVE AllocateFrames(_, _)
AllocateFrames(p, n) ==
  IF n = 0 THEN <<>>
  ELSE <<ContainingAddress(p)>> \o AllocateFrames(BumpPointer(p), n - 1)

RECURSIVE BumpedBy(_, _)
BumpedBy(p, n) == IF n = 0 THEN p ELSE BumpedBy(BumpPointer(p), n - 1)

(* The page-table levels map_to must create for a page under 0x400000.    *)
MissingLevels(s) ==
  CASE s = "no_p3" -> 3
    [] s = "no_p2" -> 2
    [] s = "no_p1" -> 1
    [] OTHER -> 0

PageAddr(i) == VirtStart + i * PageSize


(* ------------------------------ boot ---------------------------------- *)
MainRuns == ctx = "main"

(* _start: println!("Initializing RustOS...") *)
StartPrint ==
  /\ MainRuns /\ pc = "start"
  /\ Println(<<"init">>) /\ pc' = "mem_new"
  /\ lastAccess' = NoAccess
  /\ UNCHANGED <<ctx, hret, intEnabled, idtLoaded, rsp, rip, ppc, panicMsg>>
  /\ UNCHANGED <<irqVars, cntVars, kbdVars, memVars, schVars, ghostVars, writerLock>>
  /\ UNCHANGED extVars

(* memory::init: MemoryManager::new() and the mapper over the active page  *)
(* tables, whose content under 0x400000 the boot loader decided.           *)
MemoryInitNew ==
  /\ MainRuns /\ pc = "mem_new"
  /\ next_free_frame' = FrameStart
  /\ \E s \in PtStates : pt' = s
  /\ init_i' = 0 /\ pc' = "init_alloc"
  /\ lastAccess' = MainAccess("alloc")
  /\ UNCHANGED <<ctx, hret, intEnabled, idtLoaded, rsp, rip, ppc, panicMsg>>
  /\ UNCHANGED <<issued, mappings, tableFrames, curFrame>>
  /\ UNCHANGED <<irqVars, cntVars, kbdVars, schVars, ghostVars, conVars>>
  /\ UNCHANGED extVars

(* allocate_frame, first half: PhysFrame::containing_address(next_free_frame) *)
InitAllocate ==
  /\ MainRuns /\ pc = "init_alloc"
  /\ curFrame' = ContainingAddress(next_free_frame)
  /\ pc' = "init_bump"
  /\ lastAccess' = MainAccess("alloc")
  /\ UNCHANGED <<ctx, hret, intEnabled, idtLoaded, rsp, rip, ppc, panicMsg>>
  /\ UNCHANGED <<next_free_frame, issued, mappings, tableFrames, pt, init_i>>
  /\ UNCHANGED <<irqVars, cntVars, kbdVars, schVars, ghostVars, conVars>>
  /\ UNCHANGED extVars

(* allocate_frame, second half: the pointer is bumped and Some(frame) is   *)
(* returned, so expect("no more frames") passes.                           *)
InitBump ==
  /\ MainRuns /\ pc = "init_bump"
  /\ next_free_frame' = BumpPointer(next_free_frame)
  /\ issued' = Append(issued, curFrame)
  /\ pc' = "init_map"
  /\ lastAccess' = MainAccess("alloc")
  /\ UNCHANGED <<ctx, hret, intEnabled, idtLoaded, rsp, rip, ppc, panicMsg>>
  /\ UNCHANGED <<mappings, tableFrames, pt, init_i, curFrame>>
  /\ UNCHANGED <<irqVars, cntVars, kbdVars, schVars, ghostVars, conVars>>
  /\ UNCHANGED extVars

(* A faulty map_to: the table frames are taken from a copy of the          *)
(* allocator, so the allocator itself does not move past them.             *)
MapToOk_AllocatorCopied ==
  LET k == MissingLevels(pt)
      got == AllocateFrames(next_free_frame, k)
  IN /\ issued' = issued \o got
     /\ tableFrames' = tableFrames \cup {got[j] : j \in 1..k}
     /\ next_free_frame' = next_free_frame
     /\ mappings' = Append(mappings, [page |-> PageAddr(init_i),
                                      frame |-> curFrame, flags |-> MapFlags])
     /\ pt' = IF pt = "p1_pre" THEN "p1_pre" ELSE "p1_new"
     /\ init_i' = init_i + 1
     /\ pc' = IF init_i + 1 = NumPages THEN "idt_load" ELSE "init_alloc"
     /\ UNCHANGED <<ctx, ppc, panicMsg>>

(* mapper.map_to(page, frame, flags, &mut memory_manager) succeeding: the  *)
(* missing page-table levels are taken from the allocator through the      *)
(* FrameAllocator trait, then the mapping is installed and flushed.        *)
MapToOk ==
  LET k == MissingLevels(pt)
      got == AllocateFrames(next_free_frame, k)
  IN /\ issued' = issued \o got
     /\ tableFrames' = tableFrames \cup {got[j] : j \in 1..k}
     /\ next_free_frame' = BumpedBy(next_free_frame, k)
     /\ mappings' = Append(mappings, [page |-> PageAddr(init_i),
                                      frame |-> curFrame, flags |-> MapFlags])
     /\ pt' = IF pt = "p1_pre" THEN "p1_pre" ELSE "p1_new"
     /\ init_i' = init_i + 1
     /\ pc' = IF init_i + 1 = NumPages THEN "idt_load" ELSE "init_alloc"
     /\ UNCHANGED <<ctx, ppc, panicMsg>>

(* map_to returning Err (a huge page on the path, or the page already      *)
(* mapped): expect("map_to failed") panics.                                *)
MapToErr ==
  /\ Panic("map_to failed")
  /\ UNCHANGED <<pc, next_free_frame, issued, mappings, tableFrames, pt, init_i>>

InitMapTo ==
  /\ MainRuns /\ pc = "init_map"
  /\ IF pt \in {"huge_p3", "huge_p2"} THEN MapToErr
     ELSE IF pt = "p1_pre"
          THEN \E already \in BOOLEAN : IF already THEN MapToErr ELSE MapToOk
          ELSE MapToOk
  /\ lastAccess' = MainAccess("alloc")
  /\ UNCHANGED <<hret, intEnabled, idtLoaded, rsp, rip, curFrame>>
  /\ UNCHANGED <<irqVars, cntVars, kbdVars, schVars, ghostVars, conVars>>
  /\ UNCHANGED extVars

(* IDT.load() *)
IdtLoad ==
  /\ MainRuns /\ pc = "idt_load"
  /\ idtLoaded' = TRUE /\ pc' = "enable"
  /\ lastAccess' = NoAccess
  /\ UNCHANGED <<ctx, hret, intEnabled, rsp, rip, ppc, panicMsg>>
  /\ UNCHANGED <<irqVars, cntVars, kbdVars, memVars, schVars, ghostVars, conVars>>
  /\ UNCHANGED extVars

(* x86_64::instructions::interrupts::enable() *)
EnableInterrupts ==
  /\ MainRuns /\ pc = "enable"
  /\ intEnabled' = TRUE /\ pc' = "fs_create"
  /\ lastAccess' = NoAccess
  /\ UNCHANGED <<ctx, hret, idtLoaded, rsp, rip, ppc, panicMsg>>
  /\ UNCHANGED <<irqVars, cntVars, kbdVars, memVars, schVars, ghostVars, conVars>>
  /\ UNCHANGED extVars

(* FileSystem::new(); fs.create_file(...) : the file store is no part of   *)
(* the core's state.                                                       *)
FsCreate ==
  /\ MainRuns /\ pc = "fs_create"
  /\ pc' = "task_new"
  /\ lastAccess' = NoAccess
  /\ UNCHANGED <<ctx, hret, intEnabled, idtLoaded, rsp, rip, ppc, panicMsg>>
  /\ UNCHANGED <<irqVars, cntVars, kbdVars, memVars, schVars, ghostVars, conVars>>
  /\ UNCHANGED extVars


(* --------------------------- task memory ------------------------------ *)
(* Memory words written so far, as records [slot, val]; a slot is a byte   *)
(* offset from the base of a buffer.                                       *)
MemWrite(m, slot, v) == {w \in m : w.slot # slot} \cup {[slot |-> slot, val |-> v]}
MemRead(m, slot) == {w.val : w \in {x \in m : x.slot = slot}}

(* Task::new: sp = stack.as_mut_ptr().add(4096), the word at sp is set to  *)
(* the entry point and sp is recorded as stack_pointer.                    *)
TaskInitialSp(k) == [buf |-> k, off |-> StackSize]
TaskNew(k) == [id |-> 0, stack |-> k, stack_pointer |-> TaskInitialSp(k)]

(* --------------------------- scheduler -------------------------------- *)
(* A faulty advance: the index is wrapped but never incremented. *)
NextIndex_Stuck(cur, n) == cur % n

(* A faulty wrap: the index may reach len before it wraps. *)
NextIndex_WrapLate(cur, n) == IF cur + 1 > n THEN 0 ELSE cur + 1

(* self.current_task = (self.current_task + 1) % self.tasks.len() *)
NextIndex(cur, n) == (cur + 1) % n

(* "mov rsp, sp; ret": the word at sp is popped into rip.  sp lies one     *)
(* past the end of the task's Vec buffer, so the word Task::new wrote      *)
(* there is outside the allocation and need not have survived.             *)
RetTargets(m, sp) == MemRead(m, sp) \cup {"garbage"}
AfterRet(sp) == [buf |-> sp.buf, off |-> sp.off + WordSize]

(* SCHEDULER.lock().add_task(Task::new(taskN)), in four steps. *)
TaskNewStep ==
  /\ MainRuns /\ pc = "task_new"
  /\ LET k == Len(tasks) + 1
         entry == IF Len(tasks) = 0 THEN "task1" ELSE "task2"
     IN /\ newTask' = <<TaskNew(k)>>
        /\ mem' = MemWrite(mem, TaskInitialSp(k), entry)
  /\ pc' = "add_lock"
  /\ lastAccess' = NoAccess
  /\ UNCHANGED <<ctx, hret, intEnabled, idtLoaded, rsp, rip, ppc, panicMsg>>
  /\ UNCHANGED <<tasks, current_task, schedLock>>
  /\ UNCHANGED <<irqVars, cntVars, kbdVars, memVars, ghostVars, conVars>>
  /\ UNCHANGED extVars

AddLock ==
  /\ MainRuns /\ pc = "add_lock" /\ schedLock = "free"
  /\ schedLock' = "main" /\ pc' = "add_push"
  /\ lastAccess' = NoAccess
  /\ UNCHANGED <<ctx, hret, intEnabled, idtLoaded, rsp, rip, ppc, panicMsg>>
  /\ UNCHANGED <<tasks, current_task, newTask, mem>>
  /\ UNCHANGED <<irqVars, cntVars, kbdVars, memVars, ghostVars, conVars>>
  /\ UNCHANGED extVars

(* Scheduler::add_task: self.tasks.push(task) *)
AddPush ==
  /\ MainRuns /\ pc = "add_push"
  /\ tasks' = Append(tasks, newTask[1]) /\ newTask' = <<>>
  /\ pc' = "add_unlock"
  /\ lastAccess' = MainAccess("sched")
  /\ UNCHANGED <<ctx, hret, intEnabled, idtLoaded, rsp, rip, ppc, panicMsg>>
  /\ UNCHANGED <<current_task, schedLock, mem>>
  /\ UNCHANGED <<irqVars, cntVars, kbdVars, memVars, ghostVars, conVars>>
  /\ UNCHANGED extVars

AddUnlock ==
  /\ MainRuns /\ pc = "add_unlock"
  /\ schedLock' = "free"
  /\ pc' = IF Len(tasks) < NumBootTasks THEN "task_new" ELSE "ok_print"
  /\ lastAccess' = NoAccess
  /\ UNCHANGED <<ctx, hret, intEnabled, idtLoaded, rsp, rip, ppc, panicMsg>>
  /\ UNCHANGED <<tasks, current_task, newTask, mem>>
  /\ UNCHANGED <<irqVars, cntVars, kbdVars, memVars, ghostVars, conVars>>
  /\ UNCHANGED extVars

(* println!("RustOS initialized successfully!"); println!("Type 'help'...") *)
OkPrint ==
  /\ MainRuns /\ pc = "ok_print"
  /\ Println(<<"ok">>) /\ pc' = "prompt"
  /\ lastAccess' = NoAccess
  /\ UNCHANGED <<ctx, hret, intEnabled, idtLoaded, rsp, rip, ppc, panicMsg>>
  /\ UNCHANGED <<irqVars, cntVars, kbdVars, memVars, schVars, ghostVars, writerLock>>
  /\ UNCHANGED extVars

(* ---------------------------- main loop ------------------------------- *)
(* print!("> "); read_line starts with an empty input. *)
Prompt ==
  /\ MainRuns /\ pc = "prompt"
  /\ Println(<<"prompt">>) /\ lineLen' = 0 /\ pc' = "wait_status"
  /\ lastAccess' = NoAccess
  /\ UNCHANGED <<ctx, hret, intEnabled, idtLoaded, rsp, rip, ppc, panicMsg>>
  /\ UNCHANGED <<keysPressed, kbdFull, kbdData>>
  /\ UNCHANGED <<irqVars, cntVars, memVars, schVars, ghostVars, writerLock>>
  /\ UNCHANGED extVars

(* wait_for_key: while port(0x64).read() & 1 == 0 {} *)
WaitStatus ==
  /\ MainRuns /\ pc = "wait_status" /\ kbdFull
  /\ pc' = "wait_data"
  /\ lastAccess' = NoAccess
  /\ UNCHANGED <<ctx, hret, intEnabled, idtLoaded, rsp, rip, ppc, panicMsg>>
  /\ UNCHANGED <<irqVars, cntVars, kbdVars, memVars, schVars, ghostVars, conVars>>
  /\ UNCHANGED extVars

(* wait_for_key: data_port.read(), and read_line's match on the key. *)
WaitData ==
  /\ MainRuns /\ pc = "wait_data"
  /\ kbdFull' = FALSE
  /\ IF kbdData = KeyCR
       THEN /\ Println(<<"newline">>) /\ pc' = "handle" /\ UNCHANGED lineLen
     ELSE IF kbdData = KeyBackspace
       THEN /\ pc' = "wait_status"
            /\ IF lineLen > 0
                 THEN lineLen' = lineLen - 1 /\ Println(<<"echo">>)
                 ELSE UNCHANGED <<lineLen, console>>
     ELSE IF kbdData >= 32 /\ kbdData <= 126
       THEN /\ lineLen' = lineLen + 1 /\ Println(<<"echo">>) /\ pc' = "wait_status"
     ELSE /\ pc' = "wait_status" /\ UNCHANGED <<lineLen, console>>
  /\ lastAccess' = NoAccess
  /\ UNCHANGED <<ctx, hret, intEnabled, idtLoaded, rsp, rip, ppc, panicMsg>>
  /\ UNCHANGED <<keysPressed, kbdData, writerLock>>
  /\ UNCHANGED <<irqVars, cntVars, memVars, schVars, ghostVars>>
  /\ keysRead' = keysRead + 1 /\ UNCHANGED allocVars

(* A write to an I/O port: 0x20 to port 0x20 is the end-of-interrupt       *)
(* command, which clears the in-service bit of highest priority.           *)
HighestInService == IF "timer" \in isr THEN {"timer"} ELSE isr
PortWrite(port, val) ==
  IF port = PicCmdPort /\ val = EoiByte
    THEN /\ eoiTotal' = eoiTotal + 1
         /\ hEoi' = hEoi + 1
         /\ isr' = isr \ HighestInService
    ELSE UNCHANGED <<eoiTotal, hEoi, isr>>

(* handle_command on the line typed: the commands that only print, "clear" *)
(* (takes the WRITER lock) and "reboot" (0xFE to port 0x64, then loop {}). *)
HandleCommand ==
  /\ MainRuns /\ pc = "handle"
  /\ \E c \in Commands :
       CASE c = "print" ->
              /\ Println(<<"cmd_out">>) /\ pc' = "run_lock"
              /\ UNCHANGED <<writerLock, eoiTotal, hEoi, isr>>
         [] c = "clear" ->
              /\ writerLock = "free" /\ writerLock' = "main"
              /\ pc' = "clear_locked"
              /\ UNCHANGED <<console, eoiTotal, hEoi, isr>>
         [] c = "reboot" ->
              /\ PortWrite(KbdStatusPort, ResetByte)
              /\ pc' = "reboot_spin"
              /\ UNCHANGED <<console, writerLock>>
  /\ lastAccess' = NoAccess
  /\ UNCHANGED <<ctx, hret, intEnabled, idtLoaded, rsp, rip, ppc, panicMsg>>
  /\ UNCHANGED <<hpc, irr, hWork>>
  /\ UNCHANGED <<TIMER_TICKS, timerRaised, timerTaken, kbdTaken, served>>
  /\ UNCHANGED <<kbdVars, memVars, schVars, ghostVars>>
  /\ UNCHANGED extVars

(* clear_screen() under the WRITER guard, dropped at the end of the arm. *)
ClearScreen ==
  /\ MainRuns /\ pc = "clear_locked"
  /\ console' = {} /\ writerLock' = "free" /\ pc' = "run_lock"
  /\ lastAccess' = NoAccess
  /\ UNCHANGED <<ctx, hret, intEnabled, idtLoaded, rsp, rip, ppc, panicMsg>>
  /\ UNCHANGED <<irqVars, cntVars, kbdVars, memVars, schVars, ghostVars>>
  /\ UNCHANGED extVars


(* ------------------------- double fault ------------------------------- *)
(* A faulty gate: the double fault entry is a trap gate, which leaves the  *)
(* interrupt flag as it was.                                               *)
EnterDoubleFault_TrapGate ==
  /\ ctx' = "panic" /\ ppc' = "df" /\ panicMsg' = "double fault"
  /\ intEnabled' = intEnabled

(* The CPU delivers vector 8 through the IDT's interrupt gate: interrupts  *)
(* are disabled and double_fault_handler is entered.                       *)
EnterDoubleFault ==
  /\ ctx' = "panic" /\ ppc' = "df" /\ panicMsg' = "double fault"
  /\ intEnabled' = FALSE

(* ------------------------- run_next_task ------------------------------ *)
(* SCHEDULER.lock() of the main loop's last statement. *)
RunLock ==
  /\ MainRuns /\ pc = "run_lock" /\ schedLock = "free"
  /\ schedLock' = "main" /\ pc' = "run_advance"
  /\ lastAccess' = NoAccess
  /\ UNCHANGED <<ctx, hret, intEnabled, idtLoaded, rsp, rip, ppc, panicMsg>>
  /\ UNCHANGED <<tasks, current_task, newTask, mem>>
  /\ UNCHANGED <<irqVars, cntVars, kbdVars, memVars, ghostVars, conVars>>
  /\ UNCHANGED extVars

(* run_next_task up to the asm block: the early return on an empty task    *)
(* list (the guard is dropped by the caller), else the index advances.     *)
RunAdvance ==
  /\ MainRuns /\ pc = "run_advance"
  /\ runCalls' = runCalls + 1
  /\ IF tasks = <<>>
       THEN /\ schedLock' = "free" /\ pc' = "prompt"
            /\ UNCHANGED <<current_task, scheduled>>
       ELSE /\ current_task' = NextIndex(current_task, Len(tasks))
            /\ scheduled' = Append(scheduled, current_task')
            /\ pc' = "run_switch"
            /\ UNCHANGED schedLock
  /\ lastAccess' = MainAccess("sched")
  /\ UNCHANGED <<ctx, hret, intEnabled, idtLoaded, rsp, rip, ppc, panicMsg>>
  /\ UNCHANGED <<tasks, newTask, mem, addAfterRun, lastSwitch>>
  /\ UNCHANGED <<irqVars, cntVars, kbdVars, memVars, conVars>>
  /\ UNCHANGED extVars

(* The task the switch leaves: the one current_task named before it moved. *)
PrevIndex(cur, n) == (cur + n - 1) % n

(* The asm block: rsp is loaded from next_task.stack_pointer and ret pops  *)
(* the word there into rip.  Nothing is stored for the context left.       *)
SwitchTo(target) ==
  LET sp == tasks'[current_task' + 1].stack_pointer
  IN /\ rip' = target
     /\ rsp' = AfterRet(sp)
     /\ lastSwitch' = <<[from |-> PrevIndex(current_task', Len(tasks')),
                         fromRsp |-> rsp, to |-> current_task']>>

RunSwitch ==
  /\ MainRuns /\ pc = "run_switch"
  /\ UNCHANGED <<tasks, current_task>>
  /\ \E t \in RetTargets(mem, tasks[current_task + 1].stack_pointer) :
       /\ SwitchTo(t)
       /\ IF t \in Entries
            THEN /\ pc' = "task_print"
                 /\ UNCHANGED <<ctx, ppc, panicMsg, intEnabled>>
            ELSE /\ pc' = "crashed" /\ EnterDoubleFault
  /\ lastAccess' = MainAccess("sched")
  /\ UNCHANGED <<hret, idtLoaded, schedLock, newTask, mem>>
  /\ UNCHANGED <<scheduled, runCalls, addAfterRun>>
  /\ UNCHANGED <<irqVars, cntVars, kbdVars, memVars, conVars>>
  /\ UNCHANGED extVars

(* task1 / task2: loop { println!("Task N running"); for _ in 0..1000000 {} } *)
TaskPrint ==
  /\ MainRuns /\ pc = "task_print"
  /\ Println(<<rip, "running">>) /\ pc' = "task_spin"
  /\ lastAccess' = NoAccess
  /\ UNCHANGED <<ctx, hret, intEnabled, idtLoaded, rsp, rip, ppc, panicMsg>>
  /\ UNCHANGED <<irqVars, cntVars, kbdVars, memVars, schVars, ghostVars, writerLock>>
  /\ UNCHANGED extVars

TaskSpin ==
  /\ MainRuns /\ pc = "task_spin"
  /\ pc' = "task_print"
  /\ lastAccess' = NoAccess
  /\ UNCHANGED <<ctx, hret, intEnabled, idtLoaded, rsp, rip, ppc, panicMsg>>
  /\ UNCHANGED <<irqVars, cntVars, kbdVars, memVars, schVars, ghostVars, conVars>>
  /\ UNCHANGED extVars

(* --------------------------- hardware --------------------------------- *)
(* The timer raises IRQ0 and the controller latches the request (a        *)
(* request already latched absorbs a further one: nothing changes).        *)
TimerRaise ==
  /\ timerRaised < MaxTimerIrqs /\ "timer" \notin irr
  /\ timerRaised' = timerRaised + 1
  /\ irr' = irr \cup {"timer"}
  /\ UNCHANGED <<cpuVars, hpc, isr, hWork, hEoi>>
  /\ UNCHANGED <<TIMER_TICKS, timerTaken, kbdTaken, served, eoiTotal>>
  /\ UNCHANGED <<kbdVars, memVars, schVars, ghostVars, conVars, lastAccess>>
  /\ UNCHANGED extVars

(* A key event: the controller latches the byte (status bit 0) and raises  *)
(* IRQ1.                                                                   *)
KeyPress ==
  /\ keysPressed < MaxKeys /\ ~kbdFull
  /\ \E k \in Keys : kbdData' = k
  /\ kbdFull' = TRUE /\ keysPressed' = keysPressed + 1
  /\ irr' = irr \cup {"kbd"}
  /\ UNCHANGED <<cpuVars, hpc, isr, hWork, hEoi, lineLen>>
  /\ UNCHANGED <<cntVars, memVars, schVars, ghostVars, conVars, lastAccess>>
  /\ UNCHANGED extVars

(* The interrupt controller hands over the pending request of highest      *)
(* priority that no in-service request of the same or higher priority      *)
(* blocks.                                                                 *)
CanDeliver(line) ==
  /\ line \in irr
  /\ IF line = "timer" THEN "timer" \notin isr
     ELSE isr = {} /\ "timer" \notin irr

(* The CPU takes an external interrupt through the IDT's interrupt gate:   *)
(* the handler is entered with interrupts disabled.                        *)
Deliver ==
  /\ intEnabled /\ idtLoaded /\ hpc = "none"
  /\ \E line \in {"timer", "kbd"} :
       /\ CanDeliver(line)
       /\ irr' = irr \ {line} /\ isr' = isr \cup {line}
       /\ hpc' = IF line = "timer" THEN "t_inc" ELSE "k_read"
       /\ timerTaken' = IF line = "timer" THEN timerTaken + 1 ELSE timerTaken
       /\ kbdTaken' = IF line = "kbd" THEN kbdTaken + 1 ELSE kbdTaken
  /\ hret' = ctx /\ ctx' = "irq" /\ intEnabled' = FALSE
  /\ hWork' = FALSE /\ hEoi' = 0
  /\ lastAccess' = IrqAccess("none")
  /\ UNCHANGED <<pc, idtLoaded, rsp, rip, ppc, panicMsg>>
  /\ UNCHANGED <<TIMER_TICKS, timerRaised, served, eoiTotal>>
  /\ UNCHANGED <<kbdVars, memVars, schVars, ghostVars, conVars>>
  /\ UNCHANGED extVars

(* ------------------------ interrupt handlers -------------------------- *)
IrqRuns == ctx = "irq"

(* A faulty tick: store(1) in place of fetch_add(1). *)
FetchAdd_Store(t) == 1

(* TIMER_TICKS.fetch_add(1, Ordering::Relaxed): one atomic step.  The      *)
(* counter is a usize and wraps at 2^64, far beyond any count reached here.*)
FetchAdd(t) == t + 1

(* A faulty timer handler: it also makes the scheduling decision itself,   *)
(* advancing the scheduler's index from interrupt context.                 *)
TimerInc_Preempt ==
  /\ IrqRuns /\ hpc = "t_inc"
  /\ TIMER_TICKS' = TIMER_TICKS + 1
  /\ current_task' = IF tasks = <<>> THEN current_task
                     ELSE (current_task + 1) % Len(tasks)
  /\ hWork' = TRUE /\ hpc' = "t_eoi"
  /\ lastAccess' = IrqAccess("sched")
  /\ UNCHANGED <<cpuVars, irr, isr, hEoi>>
  /\ UNCHANGED <<timerRaised, timerTaken, kbdTaken, served, eoiTotal>>
  /\ UNCHANGED <<tasks, schedLock, newTask, mem>>
  /\ UNCHANGED <<kbdVars, memVars, ghostVars, conVars>>
  /\ UNCHANGED extVars

(* A faulty handler: the tick is counted under the scheduler's lock, which *)
(* the handler spins on while the interrupted code holds it.               *)
TimerInc_UnderSchedLock ==
  /\ IrqRuns /\ hpc = "t_inc"
  /\ schedLock = "free"
  /\ TIMER_TICKS' = FetchAdd(TIMER_TICKS)
  /\ hWork' = TRUE /\ hpc' = "t_eoi"
  /\ lastAccess' = IrqAccess("ticks")
  /\ UNCHANGED <<cpuVars, irr, isr, hEoi>>
  /\ UNCHANGED <<timerRaised, timerTaken, kbdTaken, served, eoiTotal>>
  /\ UNCHANGED <<kbdVars, memVars, schVars, ghostVars, conVars>>
  /\ UNCHANGED extVars

TimerInc ==
  /\ IrqRuns /\ hpc = "t_inc"
  /\ TIMER_TICKS' = FetchAdd(TIMER_TICKS)
  /\ hWork' = TRUE /\ hpc' = "t_eoi"
  /\ lastAccess' = IrqAccess("ticks")
  /\ UNCHANGED <<cpuVars, irr, isr, hEoi>>
  /\ UNCHANGED <<timerRaised, timerTaken, kbdTaken, served, eoiTotal>>
  /\ UNCHANGED <<kbdVars, memVars, schVars, ghostVars, conVars>>
  /\ UNCHANGED extVars

(* Port::new(0x20).write(0x20) *)
TimerEoi ==
  /\ IrqRuns /\ hpc = "t_eoi"
  /\ PortWrite(PicCmdPort, EoiByte)
  /\ hpc' = "t_ret"
  /\ lastAccess' = IrqAccess("none")
  /\ UNCHANGED <<cpuVars, irr, hWork>>
  /\ UNCHANGED <<TIMER_TICKS, timerRaised, timerTaken, kbdTaken, served>>
  /\ UNCHANGED <<kbdVars, memVars, schVars, ghostVars, conVars>>
  /\ UNCHANGED extVars

(* let scancode: u8 = port(0x60).read(): the read empties the controller's *)
(* output buffer; the byte is dropped.                                     *)
KbdRead ==
  /\ IrqRuns /\ hpc = "k_read"
  /\ kbdFull' = FALSE
  /\ hWork' = TRUE /\ hpc' = "k_eoi"
  /\ lastAccess' = IrqAccess("none")
  /\ UNCHANGED <<cpuVars, irr, isr, hEoi>>
  /\ UNCHANGED <<cntVars, keysPressed, kbdData, lineLen>>
  /\ UNCHANGED <<memVars, schVars, ghostVars, conVars>>
  /\ UNCHANGED extVars

(* A faulty keyboard handler: the acknowledgment goes to the data port. *)
KbdEoi_WrongPort ==
  /\ IrqRuns /\ hpc = "k_eoi"
  /\ PortWrite(KbdDataPort, EoiByte)
  /\ hpc' = "k_ret"
  /\ lastAccess' = IrqAccess("none")
  /\ UNCHANGED <<cpuVars, irr, hWork>>
  /\ UNCHANGED <<TIMER_TICKS, timerRaised, timerTaken, kbdTaken, served>>
  /\ UNCHANGED <<kbdVars, memVars, schVars, ghostVars, conVars>>
  /\ UNCHANGED extVars

KbdEoi ==
  /\ IrqRuns /\ hpc = "k_eoi"
  /\ PortWrite(PicCmdPort, EoiByte)
  /\ hpc' = "k_ret"
  /\ lastAccess' = IrqAccess("none")
  /\ UNCHANGED <<cpuVars, irr, hWork>>
  /\ UNCHANGED <<TIMER_TICKS, timerRaised, timerTaken, kbdTaken, served>>
  /\ UNCHANGED <<kbdVars, memVars, schVars, ghostVars, conVars>>
  /\ UNCHANGED extVars

(* The handler's iretq: the interrupted context resumes with the flags it  *)
(* had, interrupts enabled.                                                *)
HandlerReturn ==
  /\ IrqRuns /\ hpc \in {"t_ret", "k_ret"}
  /\ hpc' = "none" /\ ctx' = hret /\ intEnabled' = TRUE
  /\ served' = served + 1
  /\ lastAccess' = IrqAccess("none")
  /\ UNCHANGED <<pc, hret, idtLoaded, rsp, rip, ppc, panicMsg>>
  /\ UNCHANGED <<irr, isr, hWork, hEoi>>
  /\ UNCHANGED <<TIMER_TICKS, timerRaised, timerTaken, kbdTaken, eoiTotal>>
  /\ UNCHANGED <<kbdVars, memVars, schVars, ghostVars, conVars>>
  /\ UNCHANGED extVars

(* A double fault, raised by the CPU at any point once the IDT is loaded   *)
(* (no other exception has a handler).                                     *)
DoubleFault ==
  /\ idtLoaded /\ ctx # "panic"
  /\ EnterDoubleFault
  /\ lastAccess' = NoAccess
  /\ UNCHANGED <<pc, hret, idtLoaded, rsp, rip>>
  /\ UNCHANGED <<irqVars, cntVars, kbdVars, memVars, schVars, ghostVars, conVars>>
  /\ UNCHANGED extVars

(* double_fault_handler: panic!("EXCEPTION: DOUBLE FAULT ...") *)
DoubleFaultHandler ==
  /\ ctx = "panic" /\ ppc = "df"
  /\ ppc' = "panic"
  /\ lastAccess' = NoAccess
  /\ UNCHANGED <<pc, ctx, hret, intEnabled, idtLoaded, rsp, rip, panicMsg>>
  /\ UNCHANGED <<irqVars, cntVars, kbdVars, memVars, schVars, ghostVars, conVars>>
  /\ UNCHANGED extVars

(* panic: println!("Kernel panic: {}", info); loop {} *)
PanicHandler ==
  /\ ctx = "panic" /\ ppc = "panic"
  /\ Println(<<"Kernel panic", panicMsg>>)
  /\ ppc' = "halt"
  /\ lastAccess' = NoAccess
  /\ UNCHANGED <<pc, ctx, hret, intEnabled, idtLoaded, rsp, rip, panicMsg>>
  /\ UNCHANGED <<irqVars, cntVars, kbdVars, memVars, schVars, ghostVars, writerLock>>
  /\ UNCHANGED extVars

(* ------------------------- the whole kernel --------------------------- *)
Next ==
  \/ StartPrint \/ MemoryInitNew \/ InitAllocate \/ InitBump \/ InitMapTo
  \/ IdtLoad \/ EnableInterrupts \/ FsCreate
  \/ TaskNewStep \/ AddLock \/ AddPush \/ AddUnlock \/ OkPrint
  \/ Prompt \/ WaitStatus \/ WaitData \/ HandleCommand \/ ClearScreen
  \/ RunLock \/ RunAdvance \/ RunSwitch \/ TaskPrint \/ TaskSpin
  \/ TimerRaise \/ KeyPress \/ Deliver
  \/ TimerInc \/ TimerEoi \/ KbdRead \/ KbdEoi \/ HandlerReturn
  \/ DoubleFault \/ DoubleFaultHandler \/ PanicHandler

Spec == Init /\ [][Next]_vars


(* -------------------- the Scheduler driven directly -------------------- *)
(* The Scheduler value alone, its two methods called in any order by       *)
(* whatever code is running: add_task with a task made by Task::new, and   *)
(* run_next_task taken as one step, its asm block included (the indexing   *)
(* &mut self.tasks[self.current_task] panics on an index out of range).    *)
ApiAddTask ==
  /\ Len(tasks) < MaxTasks /\ rip \notin {"garbage", "index_panic"}
  /\ \E e \in Entries :
       LET k == Len(tasks) + 1
       IN /\ mem' = MemWrite(mem, TaskInitialSp(k), e)
          /\ tasks' = Append(tasks, TaskNew(k))
  /\ addAfterRun' = (addAfterRun \/ runCalls > 0)
  /\ lastAccess' = MainAccess("sched")
  /\ UNCHANGED <<cpuVars, irqVars, cntVars, kbdVars, memVars, conVars>>
  /\ UNCHANGED <<current_task, schedLock, newTask>>
  /\ UNCHANGED <<scheduled, runCalls, lastSwitch>>
  /\ UNCHANGED extVars

ApiRunNextTask ==
  /\ runCalls < MaxRuns /\ rip \notin {"garbage", "index_panic"}
  /\ runCalls' = runCalls + 1
  /\ UNCHANGED tasks
  /\ IF tasks = <<>>
       THEN UNCHANGED <<current_task, scheduled, rip, rsp, lastSwitch>>
       ELSE /\ current_task' = NextIndex(current_task, Len(tasks))
            /\ scheduled' = Append(scheduled, current_task')
            /\ IF current_task' < Len(tasks)
                 THEN \E t \in RetTargets(mem, tasks[current_task' + 1].stack_pointer) :
                        SwitchTo(t)
                 ELSE /\ rip' = "index_panic"
                      /\ UNCHANGED <<rsp, lastSwitch>>
  /\ lastAccess' = MainAccess("sched")
  /\ UNCHANGED <<pc, ctx, hret, intEnabled, idtLoaded, ppc, panicMsg>>
  /\ UNCHANGED <<irqVars, cntVars, kbdVars, memVars, conVars>>
  /\ UNCHANGED <<schedLock, newTask, mem, addAfterRun>>
  /\ UNCHANGED extVars

SchedNext == ApiAddTask \/ ApiRunNextTask

SchedSpec == Init /\ [][SchedNext]_vars

(* ============================== claims ================================ *)

C2_BumpAllocation ==
  \A i \in 1..Len(issued) :
     /\ issued[i] = FrameStart + (i - 1) * PageSize
     /\ issued[i] % PageSize = 0
     /\ i > 1 => issued[i] - issued[i - 1] = PageSize

(* C2 witness: ten frames went to memory::init and three to the mapper. *)
C2_Witness ==
  /\ Len(issued) = NumPages + 3
  /\ Cardinality(tableFrames) = 3
  /\ Len(mappings) = NumPages

(* C3: TIMER_TICKS counts the timer interrupts taken: every timer handler  *)
(* adds exactly 1 (a handler entered and not yet at its fetch_add has not  *)
(* added yet), and nothing else changes the counter.                       *)
C3_TicksCountTimerInterrupts ==
  TIMER_TICKS = timerTaken - (IF hpc = "t_inc" THEN 1 ELSE 0)

(* C3 witness: two timer interrupts and a keyboard interrupt were          *)
(* serviced while the main loop ran.                                       *)
C3_Witness ==
  /\ TIMER_TICKS = 2 /\ kbdTaken >= 1 /\ served = 3
  /\ pc = "wait_status" /\ ctx = "main"

(* C4: once a double fault was delivered the kernel stays in the panic     *)
(* context with interrupts disabled: the interrupted code and any          *)
(* interrupted handler never run again, TIMER_TICKS never changes, and     *)
(* the halted state (panic's loop) is entered with the fault logged and    *)
(* never left.                                                             *)
DfDelivered == panicMsg = "double fault"
DfLogged == <<"Kernel panic", "double fault">> \in console
C4_DoubleFaultHalts ==
  [][DfDelivered =>
       /\ DfDelivered' /\ ctx' = "panic" /\ ~intEnabled'
       /\ pc' = pc /\ hpc' = hpc
       /\ TIMER_TICKS' = TIMER_TICKS
       /\ (ppc' = "halt" => DfLogged')
       /\ (ppc = "halt" => ppc' = "halt")]_vars

(* C4 witness: halted after a double fault, the fault logged, a timer      *)
(* interrupt raised and left pending.                                      *)
C4_Witness ==
  /\ DfDelivered /\ ppc = "halt" /\ DfLogged
  /\ "timer" \in irr /\ timerRaised > timerTaken

(* C5: exactly-once acknowledgment.  A handler writes the EOI only after   *)
(* its own work, it returns having written exactly one, and the EOIs       *)
(* written in total are those of the interrupts serviced.                  *)
C5_ExactlyOnceEoi ==
  /\ hEoi > 0 => hWork
  /\ hpc \in {"t_inc", "t_eoi", "k_read", "k_eoi"} => hEoi = 0
  /\ hpc \in {"t_ret", "k_ret"} => hEoi = 1
  /\ eoiTotal = served + (IF hpc \in {"t_ret", "k_ret"} THEN 1 ELSE 0)

(* C5 witness: a timer and a keyboard interrupt both serviced. *)
C5_Witness ==
  /\ timerTaken >= 1 /\ kbdTaken >= 1 /\ served = 2 /\ eoiTotal = 2
  /\ hpc = "none"

(* C6: a context switch stores the execution context of the task it        *)
(* leaves into that task's saved context.                                  *)
C6_SwitchSavesContext ==
  \A i \in 1..Len(lastSwitch) :
     tasks[lastSwitch[i].from + 1].stack_pointer = lastSwitch[i].fromRsp

(* C7: no interrupt handler runs between run_next_task's update of         *)
(* current_task and the next task executing on its own stack.              *)
C7_NoHandlerDuringSwitch == pc = "run_switch" => ctx # "irq"

(* The shared objects ordinary code is in the middle of updating: the      *)
(* scheduler while its guard is held, the allocator inside allocate_frame. *)
MainUpdating ==
  (IF schedLock = "main" THEN {"sched"} ELSE {})
    \cup (IF pc = "init_bump" THEN {"alloc"} ELSE {})

(* C8: a running interrupt handler touches no shared object that ordinary  *)
(* code is in the middle of updating, and ordinary code touches shared     *)
(* state only when no handler is in the middle of its run.                 *)
C8_NoMidUpdateAccess ==
  /\ ctx = "irq" => (lastAccess.by = "irq" /\ lastAccess.obj \notin MainUpdating)
  /\ (lastAccess.by = "main" /\ lastAccess.obj # "none") => hpc = "none"

(* C8 witness: the timer handler has just added to TIMER_TICKS while the   *)
(* main code holds the scheduler open in add_task.                         *)
C8_Witness ==
  /\ ctx = "irq" /\ lastAccess = IrqAccess("ticks")
  /\ MainUpdating = {"sched"} /\ pc = "add_push"

(* The CPU always executes the next instruction of the context it is in;   *)
(* the hardware events (timer, keys, faults) are under no obligation.      *)
CpuStep ==
  \/ StartPrint \/ MemoryInitNew \/ InitAllocate \/ InitBump \/ InitMapTo
  \/ IdtLoad \/ EnableInterrupts \/ FsCreate
  \/ TaskNewStep \/ AddLock \/ AddPush \/ AddUnlock \/ OkPrint
  \/ Prompt \/ WaitStatus \/ WaitData \/ HandleCommand \/ ClearScreen
  \/ RunLock \/ RunAdvance \/ RunSwitch \/ TaskPrint \/ TaskSpin
  \/ TimerInc \/ TimerEoi \/ KbdRead \/ KbdEoi \/ HandlerReturn
  \/ DoubleFaultHandler \/ PanicHandler

FairSpec == Spec /\ WF_vars(CpuStep)

(* C9: every run_next_task call of the main loop returns: the main loop    *)
(* reaches its next prompt with the scheduler lock released (unless the    *)
(* machine has halted in a panic meanwhile).                               *)
C9_RunNextReturns ==
  (pc = "run_advance") ~> ((pc = "prompt" /\ schedLock = "free") \/ ctx = "panic")

(* C10: boot ordering.  Interrupts are enabled, and a handler runs, only   *)
(* once the IDT is loaded, the ten mappings are installed and both tasks   *)
(* are in the scheduler.                                                   *)
C10_BootOrdering ==
  (intEnabled \/ ctx = "irq") =>
     /\ idtLoaded
     /\ Len(mappings) = NumPages
     /\ Len(tasks) = NumBootTasks


(* C12: task ids are unique: two distinct tasks of the task collection     *)
(* have different ids.                                                     *)
C12_TaskIdsUnique ==
  \A i, j \in 1..Len(tasks) : i # j => tasks[i].id # tasks[j].id

(* C13: whenever the task collection is non-empty, current_task is a valid *)
(* index into it, whatever the order of add_task and run_next_task calls.  *)
C13_CurrentTaskInRange ==
  tasks # <<>> => (current_task >= 0 /\ current_task < Len(tasks))

(* C13 witness: adds and runs were mixed, the index wrapped to 0 and went  *)
(* on to the last of three tasks.                                          *)
C13_Witness ==
  /\ addAfterRun /\ Len(tasks) = 3 /\ current_task = 2
  /\ \E k \in 1..Len(scheduled) : k > 1 /\ scheduled[k] = 0

(* The entry point _start gave to the task at index i. *)
BootEntry(i) == IF i = 0 THEN "task1" ELSE "task2"

(* C14: the first context switch into a task begins execution at exactly   *)
(* the entry point the task was created with.                              *)
C14_FirstSwitchAtEntry ==
  \A i \in 1..Len(lastSwitch) : rip = BootEntry(lastSwitch[i].to)

(* A failure of memory::init: one of its two expect calls panicked. *)
MemInitFailed == panicMsg \in {"no more frames", "map_to failed"}

(* C15: once an allocation or a mapping of memory::init has failed, the    *)
(* kernel is in the panic context for good: the IDT is never loaded,       *)
(* interrupts are never enabled, no task is created and the main loop is   *)
(* never entered; panic ends in its loop, which is never left.             *)
C15_MemInitFailureHalts ==
  [][MemInitFailed =>
       /\ MemInitFailed' /\ ctx' = "panic" /\ pc' = "init_map"
       /\ ~idtLoaded' /\ ~intEnabled' /\ tasks' = <<>> /\ mem' = {}
       /\ (ppc = "halt" => ppc' = "halt")]_vars

(* C15 witness: halted in panic's loop after map_to failed on a later page. *)
C15_Witness ==
  /\ panicMsg = "map_to failed" /\ ppc = "halt" /\ Len(mappings) >= 1
  /\ ctx = "panic" /\ ~idtLoaded /\ tasks = <<>>

(* C16: after memory::init the ten pages 0x400000 + i * 0x1000 are mapped, *)
(* each once, with flags {present, writable}; no frame backs two of them   *)
(* and no frame handed to the mapper for a page table backs one of them.   *)
C16_MappingsAfterInit ==
  Len(mappings) = NumPages =>
     /\ \A i \in 1..NumPages :
          /\ mappings[i].page = VirtStart + (i - 1) * PageSize
          /\ mappings[i].flags = {"present", "writable"}
          /\ mappings[i].frame \notin tableFrames
     /\ \A i, j \in 1..NumPages :
          i # j => mappings[i].frame # mappings[j].frame

(* C16 witness: memory::init is complete and the mapper created all three  *)
(* table levels.                                                           *)
C16_Witness ==
  /\ pc = "idt_load" /\ Len(mappings) = NumPages
  /\ Cardinality(tableFrames) = 3

(* C20: every word Task::new writes, and the stack pointer it records,     *)
(* lies inside the task's own 4096-byte buffer: at an offset in [0, 4096)  *)
(* with the word ending at or before offset 4096.                          *)
C20_PrimingInsideStack ==
  /\ \A w \in mem :
       w.slot.off >= 0 /\ w.slot.off + WordSize <= StackSize
  /\ \A i \in 1..Len(tasks) :
       /\ tasks[i].stack_pointer.buf = tasks[i].stack
       /\ tasks[i].stack_pointer.off >= 0
       /\ tasks[i].stack_pointer.off < StackSize


(* The steps of timer_interrupt_handler, from its entry to its iretq. *)
TimerHandlerStep ==
  \/ TimerInc
  \/ TimerEoi
  \/ (hpc = "t_ret" /\ HandlerReturn)

(* C19: the timer handler never waits: at each of its points its next step *)
(* can be taken at once, whatever locks the interrupted code holds, and no *)
(* step of it takes or releases a lock or allocates a frame.               *)
C19_TimerHandlerNeverWaits ==
  [][(IrqRuns /\ hpc \in {"t_inc", "t_eoi", "t_ret"}) =>
       /\ ENABLED TimerHandlerStep
       /\ (TimerHandlerStep =>
             UNCHANGED <<schedLock, writerLock, next_free_frame, issued>>)]_vars

(* C19 witness: a timer interrupt taken while the main loop held the       *)
(* scheduler's lock has run to its iretq.                                  *)
C19_Witness ==
  /\ IrqRuns /\ hpc = "t_ret" /\ hret = "main"
  /\ schedLock # "free" /\ TIMER_TICKS >= 1


(* C17: no key event latched by the keyboard controller is lost to the     *)
(* shell's line reader: once a key's scan code has left the controller's   *)
(* output buffer (read by the handler or by wait_for_key), the line reader *)
(* has received it, or is at its own read of the data port.                *)
C17_NoKeyLost ==
  (~kbdFull /\ pc # "wait_data") => keysRead >= keysPressed


(* ------------- the frame allocator at the top of the space ------------ *)
(* PhysAddr + u64: the sum, carried across the limbs. *)
AddrAdd(a, n) ==
  LET sum == a.lo + n
  IN PhysAddr(a.hi + sum \div LimbBase, sum % LimbBase)

(* PhysAddr::new accepts an address below 2^52 and panics on any other. *)
AddrValid(a) == a.hi < LimbBase

(* PhysFrame::containing_address on a two-limb address. *)
FrameContaining(a) == PhysAddr(a.hi, (a.lo \div PageSize) * PageSize)

(* The address j pages below the end of the physical address space. *)
TopOfSpace(j) == PhysAddr(LimbBase - 1, LimbBase - j * PageSize)

(* The values of next_free_frame allocate_frame is called on: up to        *)
(* MaxNear allocations after MemoryManager::new(), and the last MaxNear    *)
(* pages of the address space (reached after about 2^40 allocations).      *)
AllocInputs ==
  {AddrAdd(MemoryManagerNew, i * PageSize) : i \in 0..MaxNear}
    \cup {TopOfSpace(j) : j \in 1..MaxNear}

AllocInit ==
  /\ KernelInit
  /\ mm \in AllocInputs /\ allocResult = NoResult /\ allocCalls = 0

(* MemoryManager::allocate_frame on mm: the frame containing the pointer,  *)
(* then next_free_frame += Size4KiB::SIZE, which panics when the sum is no *)
(* valid physical address, then Some(frame).                               *)
ApiAllocateFrame ==
  /\ allocCalls < MaxAllocCalls /\ allocResult.kind # "panic"
  /\ LET frame == FrameContaining(mm)
         next == AddrAdd(mm, PageSize)
     IN IF AddrValid(next)
          THEN /\ mm' = next
               /\ allocResult' = [kind |-> "Some", frame |-> frame]
          ELSE /\ mm' = mm
               /\ allocResult' = [kind |-> "panic", frame |-> PhysAddr(0, 0)]
  /\ allocCalls' = allocCalls + 1
  /\ UNCHANGED <<cpuVars, irqVars, cntVars, kbdVars, memVars, schVars>>
  /\ UNCHANGED <<ghostVars, conVars, lastAccess, keysRead>>

AllocNext == ApiAllocateFrame

AllocSpec == AllocInit /\ [][AllocNext]_vars

(* The bump pointer can no longer be advanced by one page within the       *)
(* physical address space.                                                 *)
Exhausted(a) == ~AddrValid(AddrAdd(a, PageSize))

(* C11: allocate_frame returns the failure value (None) when the bump      *)
(* pointer can no longer be advanced by one page within the physical       *)
(* address space, and in every other case it succeeds with the frame at    *)
(* the pointer.                                                            *)
C11_ExhaustionReported ==
  [][ApiAllocateFrame =>
       IF Exhausted(mm)
         THEN allocResult'.kind = "None"
         ELSE /\ allocResult'.kind = "Some"
              /\ allocResult'.frame = FrameContaining(mm)]_vars


(* --------------------------- breakpoint ------------------------------- *)
(* A faulty handler: it prints through WRITER.lock(), spinning while the   *)
(* interrupted code holds the lock.                                        *)
BreakpointHandler_ThroughWriterLock ==
  /\ idtLoaded /\ ctx \in {"main", "irq"}
  /\ writerLock = "free"
  /\ Println(<<"breakpoint">>)
  /\ UNCHANGED <<cpuVars, irqVars, cntVars, kbdVars, memVars, schVars, ghostVars>>
  /\ UNCHANGED <<writerLock, lastAccess, extVars>>

(* An int3 executed by the running code once the IDT is loaded, and the    *)
(* whole of breakpoint_handler: entry through its interrupt gate,          *)
(* println!("EXCEPTION: BREAKPOINT\n{:#?}", stack_frame), and the return   *)
(* to the interrupted context with its flags.                              *)
BreakpointHandler ==
  /\ idtLoaded /\ ctx \in {"main", "irq"}
  /\ Println(<<"breakpoint">>)
  /\ UNCHANGED <<cpuVars, irqVars, cntVars, kbdVars, memVars, schVars, ghostVars>>
  /\ UNCHANGED <<writerLock, lastAccess, extVars>>

BpNext == Next \/ BreakpointHandler

BpSpec == Init /\ [][BpNext]_vars

(* The code a breakpoint can interrupt is running: the main flow, a task   *)
(* or an interrupt handler, with the IDT loaded.                           *)
CanTrap == idtLoaded /\ ctx \in {"main", "irq"}

====
